---------------------------- MODULE Spec2Model ----------------------------
(***************************************************************************)
(* A model of the ring-builder proxy server (src/index.js): the supplier   *)
(* token cache, the POST /diamonds handler and the POST /checkout handler. *)
(* src/index.js holds two programs, one after the other, each with its own *)
(* app, token cache and routes: lines 1-399 and lines 401-594.  A process  *)
(* runs one of them.  An async function runs without interruption from one *)
(* await to the next, and every await yields: one action is one such run   *)
(* of one function.                                                        *)
(***************************************************************************)
EXTENDS Integers, Sequences, FiniteSets, TLC

(***************************************************************************)
(* JavaScript values.  A value is a record [t, n, s]: its type tag, its    *)
(* number and its string.  Item prices count eighths of a currency unit    *)
(* (every such value and its product by 100 is exact in a double); all     *)
(* other numbers are integers.                                             *)
(***************************************************************************)
Undefined == [t |-> "undefined", n |-> 0, s |-> ""]
JsNull == [t |-> "null", n |-> 0, s |-> ""]
NaN == [t |-> "number", n |-> 0, s |-> "NaN"]
Num(k) == [t |-> "number", n |-> k, s |-> ""]
Str(x) == [t |-> "string", n |-> 0, s |-> x]
Bool(b) == [t |-> "boolean", n |-> IF b THEN 1 ELSE 0, s |-> ""]
Obj(x) == [t |-> "object", n |-> 0, s |-> x]
Fn(x) == [t |-> "function", n |-> 0, s |-> x]

\* typeof v === "number"
IsNumber(v) == v.t = "number"
IsNaN(v) == v.t = "number" /\ v.s = "NaN"

\* ToBoolean(v): the falsy values are undefined, null, 0, NaN, "" and false.
Truthy(v) ==
  CASE v.t = "undefined" -> FALSE
    [] v.t = "null" -> FALSE
    [] v.t = "number" -> v.s # "NaN" /\ v.n # 0
    [] v.t = "string" -> v.s # ""
    [] v.t = "boolean" -> v.n = 1
    [] OTHER -> TRUE


\* a || b
OrElse(a, b) == IF Truthy(a) THEN a ELSE b

(***************************************************************************)
(* Bounds of the model.                                                    *)
(***************************************************************************)
\* Requests the server receives in one behaviour.
NumReqs == 2
Reqs == 1..NumReqs

(***************************************************************************)
(* Program constants.                                                      *)
(***************************************************************************)
\* 5.5 * 60 * 60 * 1000
TOKEN_TTL_MS == 19800000

\* The instants at which the clock is read: the start and a millisecond
\* later, and the instants around the expiry of a token stored at either.
Instants == {1, 2, TOKEN_TTL_MS, TOKEN_TTL_MS + 1, TOKEN_TTL_MS + 2}

VARIABLES
  env,                \* process.env: "" is an unset variable
  file,               \* the program that runs: 1 (lines 1-399) or 2 (lines 401-594)
  now,                \* Date.now()
  cachedToken,        \* 0 is null; a token is the serial number the supplier gave it
  cachedTokenExpiry,
  supplierIssued,     \* supplier side: when and to whom each token was issued, by serial number
  pc,                 \* where each request's handler is suspended
  tok,                \* the token getNivodaToken returned to callNivoda, for each request
  inflight,           \* the response each pending outbound call will receive
  calls,              \* the outbound calls each request issued, in order
  frame,              \* the local variables of each request's handler
  res,                \* the HTTP response of each request
  request,            \* each request as it arrived: its route and its body
  entry,              \* what getNivodaToken saw when each request entered it
  refreshLog,         \* the refreshes that stored a token, in order of completion
  lastFailure         \* whether the latest getNivodaToken call to end failed

vars == <<env, file, now, cachedToken, cachedTokenExpiry, supplierIssued, pc,
          tok, inflight, calls, frame, res, request, entry, refreshLog,
          lastFailure>>

(***************************************************************************)
(* The token cache: getNivodaToken.                                        *)
(***************************************************************************)
\* Faulty variants of CacheHit: the cache is never used; the expiry is never looked at.
CacheHitNever(t) == FALSE
CacheHitForever(t) == cachedToken # 0

\* if (cachedToken && now < cachedTokenExpiry) return cachedToken;
CacheHit(t) == cachedToken # 0 /\ t < cachedTokenExpiry

\* if (!NIVODA_USERNAME || !NIVODA_PASSWORD) throw
CredentialsMissing == env.NIVODA_USERNAME = "" \/ env.NIVODA_PASSWORD = ""

\* if (!resp.ok || json.errors) throw
SupplierFailed(resp) == ~resp.ok \/ resp.errors

\* json.data.authenticate.username_and_password.token, 0 when any link is missing
TokenOf(resp) == resp.token

\* getNivodaToken throws on the response to authenticate.
AuthThrows(resp) == SupplierFailed(resp) \/ TokenOf(resp) = 0

\* Faulty variant of StoreToken: a token that is still valid is not replaced.
StoreTokenFirstWins(token, t) ==
  IF cachedToken # 0 /\ t < cachedTokenExpiry
  THEN [token |-> cachedToken, expiry |-> cachedTokenExpiry]
  ELSE [token |-> token, expiry |-> t + TOKEN_TTL_MS]

\* cachedToken = token; cachedTokenExpiry = Date.now() + TOKEN_TTL_MS;
StoreToken(token, t) == [token |-> token, expiry |-> t + TOKEN_TTL_MS]

\* Faulty variant of CacheAfterAuth: the token is stored before it is tested.
CacheAfterAuthEager(resp, t) ==
  IF SupplierFailed(resp)
  THEN [token |-> cachedToken, expiry |-> cachedTokenExpiry]
  ELSE [token |-> TokenOf(resp), expiry |-> t + TOKEN_TTL_MS]

\* The cache once getNivodaToken has handled the response to authenticate:
\* both throws come before the two assignments.
CacheAfterAuth(resp, t) ==
  IF AuthThrows(resp)
  THEN [token |-> cachedToken, expiry |-> cachedTokenExpiry]
  ELSE StoreToken(TokenOf(resp), t)

(***************************************************************************)
(* The outcome of an outbound call, as the remote end decided it: a call   *)
(* succeeds when the response is OK and carries what was asked for.        *)
(***************************************************************************)
AuthCallOk(resp) == resp.ok /\ ~resp.errors /\ resp.token # 0
QueryCallOk(resp) == resp.ok /\ ~resp.errors
StoreCallOk(resp) == resp.ok /\ resp.id # 0
Outcome(succeeded) == IF succeeded THEN "ok" ELSE "failed"


(***************************************************************************)
(* POST /diamonds: the query sent to the supplier.                         *)
(***************************************************************************)
\* map UI labels -> Nivoda shapes
SHAPE_MAP ==
  "Brilliant Round" :> "ROUND" @@ "Asscher" :> "ASSCHER" @@
  "Baguette" :> "BAGUETTE" @@ "Cushion" :> "CUSHION" @@
  "Emerald" :> "EMERALD" @@ "Heart" :> "HEART" @@
  "Marquise" :> "MARQUISE" @@ "Oval" :> "OVAL" @@ "Pear" :> "PEAR" @@
  "Princess" :> "PRINCESS" @@ "Radiant" :> "RADIANT"

\* SHAPE_MAP is an object literal: a key it does not own is looked up in
\* Object.prototype, whose members are functions, but for __proto__, the
\* prototype object itself.
ObjectPrototypeFunctions ==
  {"constructor", "toString", "toLocaleString", "valueOf", "hasOwnProperty",
   "isPrototypeOf", "propertyIsEnumerable", "__defineGetter__",
   "__defineSetter__", "__lookupGetter__", "__lookupSetter__"}

\* SHAPE_MAP[key]
ShapeLookup(key) ==
  IF key \in DOMAIN SHAPE_MAP THEN Str(SHAPE_MAP[key])
  ELSE IF key \in ObjectPrototypeFunctions THEN Fn(key)
  ELSE IF key = "__proto__" THEN Obj("Object.prototype")
  ELSE Undefined

\* The property key a value is used as: a string is its own key.
PropertyKey(v) ==
  CASE v.t = "string" -> v.s
    [] v.t = "undefined" -> "undefined"
    [] v.t = "null" -> "null"
    [] OTHER -> "[object]"

\* const mappedShape = shape && SHAPE_MAP[shape] ? SHAPE_MAP[shape] : null;
MappedShape(shape) ==
  IF Truthy(shape) /\ Truthy(ShapeLookup(PropertyKey(shape)))
  THEN ShapeLookup(PropertyKey(shape))
  ELSE JsNull

\* JSON.stringify of an array element: a function and undefined are written
\* null, NaN is written null, an object without own properties {}.
JsonElement(v) ==
  CASE v.t = "string" -> v
    [] v.t = "number" /\ v.s # "NaN" -> v
    [] v.t = "boolean" -> v
    [] v.t = "object" -> Obj("{}")
    [] OTHER -> JsNull

\* carat && typeof carat.min === "number" ? Number(carat.min) : null
CaratBound(carat, b) ==
  IF carat.present /\ IsNumber(b) THEN b ELSE JsNull

\* The query object of the request body: search_on_markup_price says that
\* the property is set (to true); shapes and sizes are set only when the code
\* sets them.
BuildQuery(body) ==
  LET mappedShape == MappedShape(body.shape)
      cMin == CaratBound(body.carat, body.carat.min)
      cMax == CaratBound(body.carat, body.carat.max)
  IN  [search_on_markup_price |-> TRUE,
       hasShapes |-> Truthy(mappedShape),
       shapes |-> IF Truthy(mappedShape) THEN <<JsonElement(mappedShape)>> ELSE <<>>,
       hasSizes |-> cMin # JsNull \/ cMax # JsNull,
       sizes |-> IF cMin # JsNull \/ cMax # JsNull
                 THEN <<[from |-> cMin, to |-> cMax]>> ELSE <<>>]

\* const variables = { offset: 0, limit: limit || 24, query };
BuildVariables(body) ==
  [offset |-> 0, limit |-> OrElse(body.limit, Num(24)), query |-> BuildQuery(body)]

(***************************************************************************)
(* POST /diamonds: the normalized items.                                   *)
(***************************************************************************)
\* Number(v) of a price, in eighths; the strings are those of PriceStrings.
ToNumber(v) ==
  CASE v.t = "number" -> v
    [] v.t = "undefined" -> NaN
    [] v.t = "null" -> Num(0)
    [] v.t = "boolean" -> Num(8 * v.n)
    [] v.t = "string" ->
         (CASE v.s = "" -> Num(0)
            [] v.s = " " -> Num(0)
            [] v.s = "0" -> Num(0)
            [] v.s = "12.5" -> Num(100)
            [] v.s = "0.125" -> Num(1)
            [] v.s = "1e2" -> Num(800)
            [] OTHER -> NaN)
    [] OTHER -> NaN

\* Math.round(v * 100) of a price in eighths: the nearest integer, a half
\* rounded towards plus infinity.
RoundTimes100(v) ==
  IF IsNaN(v) THEN NaN ELSE Num((25 * v.n + 1) \div 2)

\* typeof priceRaw === "number" ? Math.round(priceRaw * 100)
\*   : priceRaw ? Math.round(Number(priceRaw) * 100) : null
PriceCents(priceRaw) ==
  IF IsNumber(priceRaw) THEN RoundTimes100(priceRaw)
  ELSE IF Truthy(priceRaw) THEN RoundTimes100(ToNumber(priceRaw))
  ELSE JsNull

\* x || null
OrNull(v) == OrElse(v, JsNull)

\* One element of rawItems.map(...)
NormalizeItem(d) ==
  [id |-> d.id,
   priceCents |-> PriceCents(d.price),
   image |-> OrNull(d.image),
   certificate |-> [carats |-> OrNull(d.carats), shape |-> OrNull(d.shape),
                    color |-> OrNull(d.color), clarity |-> OrNull(d.clarity),
                    cut |-> OrNull(d.cut), certNumber |-> OrNull(d.certNumber)]]

\* rawItems.map(...)
NormalizeItems(raw) == [i \in 1..Len(raw) |-> NormalizeItem(raw[i])]

\* res.json writes a NaN as null.
JsonNumber(v) == IF IsNaN(v) THEN JsNull ELSE v


(***************************************************************************)
(* The second file (lines 401-594): POST /diamonds sends an empty query    *)
(* object and gives every item a null price.                               *)
(***************************************************************************)
\* const query = {};
EmptyQuery ==
  [search_on_markup_price |-> FALSE, hasShapes |-> FALSE, shapes |-> <<>>,
   hasSizes |-> FALSE, sizes |-> <<>>]

\* const variables = { offset: 0, limit: limit || 24, query };
BuildVariablesDraft(body) ==
  [offset |-> 0, limit |-> OrElse(body.limit, Num(24)), query |-> EmptyQuery]

\* One element of rawItems.map(...): the certificate is passed as it came.
NormalizeItemDraft(d) ==
  [id |-> d.id,
   priceCents |-> JsNull,
   image |-> OrNull(d.image),
   certificate |-> [carats |-> d.carats, shape |-> d.shape, color |-> d.color,
                    clarity |-> d.clarity, cut |-> d.cut,
                    certNumber |-> d.certNumber]]

\* rawItems.map(...)
NormalizeItemsDraft(raw) == [i \in 1..Len(raw) |-> NormalizeItemDraft(raw[i])]

(***************************************************************************)
(* State of a request before it arrives.                                   *)
(***************************************************************************)
NoResponse == [ok |-> FALSE, errors |-> FALSE, token |-> 0]
NoEntry == [entered |-> FALSE, at |-> 0, token |-> 0, expiry |-> 0,
            writes |-> 0, after |-> "none"]
NoFrame == [variables |-> <<>>, data |-> <<>>, rawItems |-> <<>>,
            lineItems |-> <<>>, variant |-> <<>>, reply |-> 0]
NoRequest == [route |-> "none"]
NoRes == [status |-> 0, error |-> "", items |-> <<>>, total |-> 0,
          cartUrl |-> <<>>, checkoutUrl |-> 0, url |-> <<>>]

\* res.status(code).json({ error })
ErrorRes(code, msg) == [NoRes EXCEPT !.status = code, !.error = msg]

\* The outbound calls of a request: each is pending, ok or failed.
Issue(log, api) == Append(log, [api |-> api, result |-> "pending"])
Settle(log, result) == [log EXCEPT ![Len(log)].result = result]

\* Requests are numbered in their order of arrival.
Arrives(r) == pc[r] = "idle" /\ (IF r = 1 THEN TRUE ELSE pc[r - 1] # "idle")

\* The two programs of src/index.js.
Files == {1, 2}

InitWith(envs, files, reqs) ==
  /\ env \in envs
  /\ file \in files
  /\ now = 1
  /\ cachedToken = 0
  /\ cachedTokenExpiry = 0
  /\ supplierIssued = <<>>
  /\ pc = [r \in reqs |-> "idle"]
  /\ tok = [r \in reqs |-> 0]
  /\ inflight = [r \in reqs |-> NoResponse]
  /\ calls = [r \in reqs |-> <<>>]
  /\ frame = [r \in reqs |-> NoFrame]
  /\ res = [r \in reqs |-> NoRes]
  /\ request = [r \in reqs |-> NoRequest]
  /\ entry = [r \in reqs |-> NoEntry]
  /\ refreshLog = <<>>
  /\ lastFailure = "none"

\* Time passes.
Tick(t) ==
  /\ t > now
  /\ now' = t
  /\ UNCHANGED <<env, file, cachedToken, cachedTokenExpiry, supplierIssued, pc,
                 tok, inflight, calls, frame, res, request, entry, refreshLog,
                 lastFailure>>

(***************************************************************************)
(* POST /diamonds.  An await yields, also on a promise that is already     *)
(* settled: every function resumes in a step of its own.  pc says where    *)
(* the request is suspended:                                               *)
(*   "token", "tokenError"  callNivoda at await getNivodaToken(), which    *)
(*                          returned tok or threw                          *)
(*   "auth", "authReply"    getNivodaToken at await fetch(...), the answer *)
(*                          not yet sent, or on its way                    *)
(*   "query"                callNivoda at await fetch(...)                 *)
(*   "data", "callError"    the handler at await callNivoda(...), which    *)
(*                          returned frame.data or threw                   *)
(***************************************************************************)
\* getNivodaToken up to its first await: it returns the cached token, throws
\* for want of credentials, or sends the authenticate request.
EnterGetNivodaToken(r) ==
  /\ entry' = [entry EXCEPT ![r] =
                 [entered |-> TRUE, at |-> now, token |-> cachedToken,
                  expiry |-> cachedTokenExpiry, writes |-> Len(refreshLog),
                  after |-> lastFailure]]
  /\ IF CacheHit(now)
     THEN /\ tok' = [tok EXCEPT ![r] = cachedToken]
          /\ pc' = [pc EXCEPT ![r] = "token"]
          /\ lastFailure' = "none"
          /\ UNCHANGED calls
     ELSE IF CredentialsMissing
     THEN /\ pc' = [pc EXCEPT ![r] = "tokenError"]
          /\ lastFailure' = "clean"
          /\ UNCHANGED <<tok, calls>>
     ELSE /\ calls' = [calls EXCEPT ![r] = Issue(@, "authenticate")]
          /\ pc' = [pc EXCEPT ![r] = "auth"]
          /\ lastFailure' = "none"
          /\ UNCHANGED tok

\* The request arrives at the first file: the handler builds the query and
\* calls callNivoda, which calls getNivodaToken.
ReceiveDiamonds(r, body) ==
  /\ file = 1
  /\ Arrives(r)
  /\ request' = [request EXCEPT ![r] = [route |-> "/diamonds", body |-> body]]
  /\ frame' = [frame EXCEPT ![r].variables = <<BuildVariables(body)>>]
  /\ EnterGetNivodaToken(r)
  /\ UNCHANGED <<env, file, now, cachedToken, cachedTokenExpiry,
                 supplierIssued, inflight, res, refreshLog>>

\* The request arrives at the second file.
ReceiveDiamondsDraft(r, body) ==
  /\ file = 2
  /\ Arrives(r)
  /\ request' = [request EXCEPT ![r] = [route |-> "/diamonds", body |-> body]]
  /\ frame' = [frame EXCEPT ![r].variables = <<BuildVariablesDraft(body)>>]
  /\ EnterGetNivodaToken(r)
  /\ UNCHANGED <<env, file, now, cachedToken, cachedTokenExpiry,
                 supplierIssued, inflight, res, refreshLog>>

\* What the supplier may answer to an authenticate request.
AuthOutcomes == {"token", "http_error", "errors", "no_token"}

\* The supplier answers the authenticate request of r; a token it issues is
\* issued now.
SupplierAuthenticate(r, outcome) ==
  /\ pc[r] = "auth"
  /\ pc' = [pc EXCEPT ![r] = "authReply"]
  /\ IF outcome = "token"
     THEN /\ supplierIssued' = Append(supplierIssued, [at |-> now, to |-> r])
          /\ inflight' = [inflight EXCEPT ![r] =
                            [ok |-> TRUE, errors |-> FALSE,
                             token |-> Len(supplierIssued) + 1]]
     ELSE /\ inflight' = [inflight EXCEPT ![r] =
                            [ok |-> outcome # "http_error",
                             errors |-> outcome = "errors", token |-> 0]]
          /\ UNCHANGED supplierIssued
  /\ UNCHANGED <<env, file, now, cachedToken, cachedTokenExpiry, tok,
                 calls, frame, res, request, entry, refreshLog, lastFailure>>

\* The authenticate response, read, reaches getNivodaToken: it throws, or
\* stores the token and its expiry and returns the token.
AuthResponse(r) ==
  /\ pc[r] = "authReply"
  /\ cachedToken' = CacheAfterAuth(inflight[r], now).token
  /\ cachedTokenExpiry' = CacheAfterAuth(inflight[r], now).expiry
  /\ calls' = [calls EXCEPT ![r] = Settle(@, Outcome(AuthCallOk(inflight[r])))]
  /\ IF AuthThrows(inflight[r])
     THEN /\ pc' = [pc EXCEPT ![r] = "tokenError"]
          /\ lastFailure' = IF Len(refreshLog) = entry[r].writes
                            THEN "clean" ELSE "overwritten"
          /\ UNCHANGED <<tok, refreshLog>>
     ELSE /\ refreshLog' = Append(refreshLog,
                                  [by |-> r, token |-> TokenOf(inflight[r]), at |-> now])
          /\ tok' = [tok EXCEPT ![r] = TokenOf(inflight[r])]
          /\ pc' = [pc EXCEPT ![r] = "token"]
          /\ lastFailure' = IF lastFailure = "clean" THEN "overwritten" ELSE lastFailure
  /\ inflight' = [inflight EXCEPT ![r] = NoResponse]
  /\ UNCHANGED <<env, file, now, supplierIssued, frame, res, request,
                 entry>>

\* callNivoda resumes from await getNivodaToken(): it sends the query with
\* the token, or throws what getNivodaToken threw.
CallNivodaResumes(r) ==
  /\ pc[r] \in {"token", "tokenError"}
  /\ IF pc[r] = "token"
     THEN /\ calls' = [calls EXCEPT ![r] = Issue(@, "query")]
          /\ pc' = [pc EXCEPT ![r] = "query"]
     ELSE /\ pc' = [pc EXCEPT ![r] = "callError"]
          /\ UNCHANGED calls
  /\ UNCHANGED <<env, file, now, cachedToken, cachedTokenExpiry,
                 supplierIssued, tok, inflight, frame, res, request, entry,
                 refreshLog, lastFailure>>

\* The response to the query, read, reaches callNivoda: it throws, or returns
\* json.data.
QueryResponse(r, resp) ==
  /\ pc[r] = "query"
  /\ calls' = [calls EXCEPT ![r] = Settle(@, Outcome(QueryCallOk(resp)))]
  /\ IF SupplierFailed(resp)
     THEN /\ pc' = [pc EXCEPT ![r] = "callError"]
          /\ UNCHANGED frame
     ELSE /\ pc' = [pc EXCEPT ![r] = "data"]
          /\ frame' = [frame EXCEPT ![r].data = resp.items]
  /\ UNCHANGED <<env, file, now, cachedToken, cachedTokenExpiry,
                 supplierIssued, tok, inflight, res, request, entry, refreshLog,
                 lastFailure>>

\* { items, total } with the items as res.json writes them.
ItemsRes(raw) ==
  [NoRes EXCEPT !.status = 200,
                !.items = [i \in 1..Len(raw) |->
                             [NormalizeItems(raw)[i] EXCEPT
                                !.priceCents = JsonNumber(@)]],
                !.total = Len(raw)]

\* { items, total } of the second file.
ItemsResDraft(raw) ==
  [NoRes EXCEPT !.status = 200,
                !.items = NormalizeItemsDraft(raw),
                !.total = Len(raw)]

\* The handler resumes from await callNivoda(...): it normalizes the items
\* and answers, or its catch answers 500.
DiamondsResumes(r) ==
  /\ pc[r] \in {"data", "callError"}
  /\ IF pc[r] = "data"
     THEN /\ frame' = [frame EXCEPT ![r].rawItems = frame[r].data]
          /\ res' = [res EXCEPT ![r] = IF file = 1 THEN ItemsRes(frame[r].data)
                                       ELSE ItemsResDraft(frame[r].data)]
     ELSE /\ res' = [res EXCEPT ![r] = ErrorRes(500, "Could not load diamonds")]
          /\ UNCHANGED frame
  /\ pc' = [pc EXCEPT ![r] = "done"]
  /\ UNCHANGED <<env, file, now, cachedToken, cachedTokenExpiry,
                 supplierIssued, tok, inflight, calls, request, entry,
                 refreshLog, lastFailure>>

(***************************************************************************)
(* POST /checkout.  pc says where the request is suspended:                *)
(*   "variant", "checkout"           shopifyRequest at await fetch(...)    *)
(*   "variantBody", "variantError"   createDiamondVariant at               *)
(*                                   await shopifyRequest(...), which      *)
(*                                   returned frame.reply or threw         *)
(*   "checkoutBody", "checkoutError" createCheckout, likewise              *)
(*   "variantId", "checkoutUrl"      the handler at await                  *)
(*                                   createDiamondVariant(...) or          *)
(*                                   createCheckout(...), which returned   *)
(*                                   frame.reply                           *)
(*   "handlerError"                  the handler at either await, the      *)
(*                                   function having thrown                *)
(***************************************************************************)
\* Faulty variant of ShopifyMissing: the fallback is taken only when both are unset.
ShopifyMissingBoth ==
  env.SHOPIFY_STORE_DOMAIN = "" /\ env.SHOPIFY_ADMIN_ACCESS_TOKEN = ""

\* The handler's test: if (!SHOPIFY_STORE_DOMAIN || !SHOPIFY_ADMIN_ACCESS_TOKEN)
ShopifyMissing ==
  env.SHOPIFY_STORE_DOMAIN = "" \/ env.SHOPIFY_ADMIN_ACCESS_TOKEN = ""

\* shopifyRequest's own test, before it fetches.
ShopifyRequestRefuses ==
  env.SHOPIFY_STORE_DOMAIN = "" \/ env.SHOPIFY_ADMIN_ACCESS_TOKEN = ""

\* A destructuring default: it replaces undefined only.
Default(v, d) == IF v = Undefined THEN d ELSE v

\* Number(v) of a variant id, a quantity or an amount of cents; the strings
\* are those of the model's request bodies.
IdToNumber(v) ==
  CASE v.t = "number" -> v
    [] v.t = "null" -> Num(0)
    [] v.t = "boolean" -> Num(v.n)
    [] v.t = "string" ->
         (CASE v.s = "" -> Num(0)
            [] v.s = "111" -> Num(111)
            [] v.s = "222" -> Num(222)
            [] OTHER -> NaN)
    [] OTHER -> NaN

\* v > 0
Positive(v) == ~IsNaN(IdToNumber(v)) /\ IdToNumber(v).n > 0

\* Faulty variant of MissingVariant: only an absent reference is refused.
MissingVariantUndefinedOnly(id) == id = Undefined

\* if (!ringVariantId)
MissingVariant(id) == ~Truthy(id)

\* `/cart/${ringVariantId}:${quantity}`, as the parts of the template
CartUrl(variantId, quantity) == <<Str("/cart/"), variantId, Str(":"), quantity>>

\* The line item of the ring.
RingLineItem(body) ==
  [variant_id |-> IdToNumber(body.ringVariantId),
   quantity |-> OrElse(IdToNumber(Default(body.quantity, Num(1))), Num(1)),
   properties |-> [ring |-> TRUE, Diamond |-> <<>>, priceCents |-> Undefined]]

\* The line item of the diamond variant the store created.
DiamondLineItem(variantId, diamond, diamondPriceCents) ==
  [variant_id |-> Num(variantId),
   quantity |-> Num(1),
   properties |-> [ring |-> FALSE, Diamond |-> <<diamond>>,
                   priceCents |-> diamondPriceCents]]

\* Faulty variant of PushDiamond: the diamond's line item replaces the list.
PushDiamondReplaces(lineItems, variantId, diamond, diamondPriceCents) ==
  <<DiamondLineItem(variantId, diamond, diamondPriceCents)>>

\* lineItems.push({ variant_id: Number(diamondVariantId), ... })
PushDiamond(lineItems, variantId, diamond, diamondPriceCents) ==
  Append(lineItems, DiamondLineItem(variantId, diamond, diamondPriceCents))

\* if (diamond && diamondPriceCents > 0)
WantsDiamond(body) ==
  body.diamond.present /\ Positive(Default(body.diamondPriceCents, Num(0)))

\* (Number(diamondPriceCents || 0) / 100).toFixed(2): units and hundredths
ToFixed2(cents) ==
  LET c == IdToNumber(OrElse(cents, Num(0)))
  IN  IF IsNaN(c) THEN <<>> ELSE <<c.n \div 100, c.n % 100>>

\* The payload createDiamondVariant posts to /variants.json.
VariantPayload(diamond, diamondPriceCents) ==
  LET titleBits == (IF Truthy(diamond.carats) THEN <<diamond.carats>> ELSE <<>>)
                   \o (IF Truthy(diamond.shape) THEN <<diamond.shape>> ELSE <<>>)
      sku == IF Truthy(diamond.certNumber) THEN diamond.certNumber
             ELSE IF Truthy(diamond.id) THEN Str("NIV-id") ELSE Undefined
  IN  [product_id |-> env.DIAMOND_PRODUCT_ID,
       title |-> <<Str("Diamond")>> \o titleBits,
       price |-> ToFixed2(Default(diamondPriceCents, Num(0))),
       sku |-> sku]

\* shopifyRequest throws on the response: if (!resp.ok)
StoreFailed(resp) == ~resp.ok

\* Faulty variant of VariantThrows: the variant is not looked at for its id.
VariantThrowsNever(id) == FALSE

\* createDiamondVariant throws on what shopifyRequest returned:
\* if (!resp || !resp.variant || !resp.variant.id)
VariantThrows(id) == id = 0

\* createCheckout throws on what shopifyRequest returned: if (!url)
CheckoutThrows(id) == id = 0

\* createCheckout(lineItems) up to its await: shopifyRequest throws, or
\* posts the checkout.
EnterCreateCheckout(r) ==
  IF ShopifyRequestRefuses
  THEN /\ pc' = [pc EXCEPT ![r] = "checkoutError"]
       /\ UNCHANGED calls
  ELSE /\ calls' = [calls EXCEPT ![r] = Issue(@, "createCheckout")]
       /\ pc' = [pc EXCEPT ![r] = "checkout"]

\* The request arrives at the first file: the handler answers 400 or the cart
\* URL, or builds the line items and calls createDiamondVariant or
\* createCheckout.
ReceiveCheckout(r, body) ==
  /\ file = 1
  /\ Arrives(r)
  /\ request' = [request EXCEPT ![r] = [route |-> "/checkout", body |-> body]]
  /\ IF MissingVariant(body.ringVariantId)
     THEN /\ res' = [res EXCEPT ![r] = ErrorRes(400, "Missing ringVariantId")]
          /\ pc' = [pc EXCEPT ![r] = "done"]
          /\ UNCHANGED <<calls, frame>>
     ELSE IF ShopifyMissing
     THEN /\ res' = [res EXCEPT ![r] =
                       [NoRes EXCEPT !.status = 200,
                          !.cartUrl = CartUrl(body.ringVariantId,
                                              Default(body.quantity, Num(1)))]]
          /\ pc' = [pc EXCEPT ![r] = "done"]
          /\ UNCHANGED <<calls, frame>>
     ELSE IF WantsDiamond(body)
     THEN /\ UNCHANGED res
          /\ IF env.DIAMOND_PRODUCT_ID = ""
             THEN /\ frame' = [frame EXCEPT ![r].lineItems = <<RingLineItem(body)>>]
                  /\ pc' = [pc EXCEPT ![r] = "handlerError"]
                  /\ UNCHANGED calls
             ELSE /\ frame' = [frame EXCEPT
                                 ![r].lineItems = <<RingLineItem(body)>>,
                                 ![r].variant =
                                   <<VariantPayload(body.diamond,
                                                    body.diamondPriceCents)>>]
                  /\ IF ShopifyRequestRefuses
                     THEN /\ pc' = [pc EXCEPT ![r] = "variantError"]
                          /\ UNCHANGED calls
                     ELSE /\ calls' = [calls EXCEPT ![r] = Issue(@, "createVariant")]
                          /\ pc' = [pc EXCEPT ![r] = "variant"]
     ELSE /\ frame' = [frame EXCEPT ![r].lineItems = <<RingLineItem(body)>>]
          /\ EnterCreateCheckout(r)
          /\ UNCHANGED res
  /\ UNCHANGED <<env, file, now, cachedToken, cachedTokenExpiry,
                 supplierIssued, tok, inflight, entry, refreshLog, lastFailure>>

\* The store's response to POST /variants.json, read, reaches shopifyRequest:
\* it throws, or returns the parsed body.
VariantResponse(r, resp) ==
  /\ pc[r] = "variant"
  /\ calls' = [calls EXCEPT ![r] = Settle(@, Outcome(StoreCallOk(resp)))]
  /\ IF StoreFailed(resp)
     THEN /\ pc' = [pc EXCEPT ![r] = "variantError"]
          /\ UNCHANGED frame
     ELSE /\ pc' = [pc EXCEPT ![r] = "variantBody"]
          /\ frame' = [frame EXCEPT ![r].reply = resp.id]
  /\ UNCHANGED <<env, file, now, cachedToken, cachedTokenExpiry,
                 supplierIssued, tok, inflight, res, request, entry, refreshLog,
                 lastFailure>>

\* createDiamondVariant resumes from await shopifyRequest(...): it throws
\* what shopifyRequest threw, throws for want of variant.id, or returns the id.
CreateDiamondVariantResumes(r) ==
  /\ pc[r] \in {"variantBody", "variantError"}
  /\ IF pc[r] = "variantError" \/ VariantThrows(frame[r].reply)
     THEN pc' = [pc EXCEPT ![r] = "handlerError"]
     ELSE pc' = [pc EXCEPT ![r] = "variantId"]
  /\ UNCHANGED <<env, file, now, cachedToken, cachedTokenExpiry,
                 supplierIssued, tok, inflight, calls, frame, res, request,
                 entry, refreshLog, lastFailure>>

\* The store's response to POST /checkouts.json, read, reaches
\* shopifyRequest: it throws, or returns the parsed body.
CheckoutResponse(r, resp) ==
  /\ pc[r] = "checkout"
  /\ calls' = [calls EXCEPT ![r] = Settle(@, Outcome(StoreCallOk(resp)))]
  /\ IF StoreFailed(resp)
     THEN /\ pc' = [pc EXCEPT ![r] = "checkoutError"]
          /\ UNCHANGED frame
     ELSE /\ pc' = [pc EXCEPT ![r] = "checkoutBody"]
          /\ frame' = [frame EXCEPT ![r].reply = resp.id]
  /\ UNCHANGED <<env, file, now, cachedToken, cachedTokenExpiry,
                 supplierIssued, tok, inflight, res, request, entry, refreshLog,
                 lastFailure>>

\* createCheckout resumes from await shopifyRequest(...): it throws what
\* shopifyRequest threw, throws for want of web_url, or returns the URL.
CreateCheckoutResumes(r) ==
  /\ pc[r] \in {"checkoutBody", "checkoutError"}
  /\ IF pc[r] = "checkoutError" \/ CheckoutThrows(frame[r].reply)
     THEN pc' = [pc EXCEPT ![r] = "handlerError"]
     ELSE pc' = [pc EXCEPT ![r] = "checkoutUrl"]
  /\ UNCHANGED <<env, file, now, cachedToken, cachedTokenExpiry,
                 supplierIssued, tok, inflight, calls, frame, res, request,
                 entry, refreshLog, lastFailure>>

\* The handler resumes from await createDiamondVariant(...) or from
\* await createCheckout(...): it appends the diamond's line item and calls
\* createCheckout, answers the checkout's URL, or its catch answers 500.
CheckoutResumes(r) ==
  /\ pc[r] \in {"variantId", "checkoutUrl", "handlerError"}
  /\ IF pc[r] = "variantId"
     THEN /\ frame' = [frame EXCEPT
                         ![r].lineItems =
                           PushDiamond(@, frame[r].reply, request[r].body.diamond,
                                       Default(request[r].body.diamondPriceCents,
                                               Num(0))),
                         ![r].reply = 0]
          /\ EnterCreateCheckout(r)
          /\ UNCHANGED res
     ELSE IF pc[r] = "checkoutUrl"
     THEN /\ res' = [res EXCEPT ![r] = [NoRes EXCEPT !.status = 200,
                                                     !.checkoutUrl = frame[r].reply]]
          /\ pc' = [pc EXCEPT ![r] = "done"]
          /\ UNCHANGED <<calls, frame>>
     ELSE /\ res' = [res EXCEPT ![r] = ErrorRes(500, "Checkout error")]
          /\ pc' = [pc EXCEPT ![r] = "done"]
          /\ UNCHANGED <<calls, frame>>
  /\ UNCHANGED <<env, file, now, cachedToken, cachedTokenExpiry,
                 supplierIssued, tok, inflight, request, entry, refreshLog,
                 lastFailure>>

\* The request arrives at the second file: 400, or the cart URL of one unit.
ReceiveCheckoutDraft(r, body) ==
  /\ file = 2
  /\ Arrives(r)
  /\ request' = [request EXCEPT ![r] = [route |-> "/checkout", body |-> body]]
  /\ IF ~Truthy(body.baseVariantId)
     THEN res' = [res EXCEPT ![r] = ErrorRes(400, "Missing baseVariantId")]
     ELSE res' = [res EXCEPT ![r] =
                    [NoRes EXCEPT !.status = 200,
                                  !.url = CartUrl(body.baseVariantId, Num(1))]]
  /\ pc' = [pc EXCEPT ![r] = "done"]
  /\ UNCHANGED <<env, file, now, cachedToken, cachedTokenExpiry,
                 supplierIssued, tok, inflight, calls, frame, entry, refreshLog,
                 lastFailure>>

(***************************************************************************)
(* Inputs.                                                                 *)
(***************************************************************************)
Settings == {"", "set"}

\* Environments: the supplier's credentials vary, the store is configured.
SupplierEnvs ==
  [NIVODA_USERNAME : Settings, NIVODA_PASSWORD : Settings,
   SHOPIFY_STORE_DOMAIN : {"set"}, SHOPIFY_ADMIN_ACCESS_TOKEN : {"set"},
   DIAMOND_PRODUCT_ID : {"set"}]

\* Environments: the store's settings vary, the supplier's credentials are set.
StoreEnvs ==
  [NIVODA_USERNAME : {"set"}, NIVODA_PASSWORD : {"set"},
   SHOPIFY_STORE_DOMAIN : Settings, SHOPIFY_ADMIN_ACCESS_TOKEN : Settings,
   DIAMOND_PRODUCT_ID : Settings]

NoCarat == [present |-> FALSE, min |-> Undefined, max |-> Undefined]
Carat(lo, hi) == [present |-> TRUE, min |-> lo, max |-> hi]

\* Shape labels: those of the table, and labels that are not in it.
ShapeLabels ==
  {Str(k) : k \in DOMAIN SHAPE_MAP}
    \cup {Undefined, JsNull, Str(""), Str("Square"), Str("round"), Str("ROUND"),
          Str("constructor"), Str("toString"), Str("__proto__")}

DiamondBodies ==
  [shape : ShapeLabels,
   carat : {NoCarat, Carat(Num(45), Num(55)), Carat(Num(45), Undefined),
            Carat(Undefined, Undefined)},
   limit : {Undefined, Num(10)}]

PlainDiamondBodies ==
  {[shape |-> Str("Brilliant Round"), carat |-> Carat(Num(45), Num(55)),
    limit |-> Num(10)]}

\* Bodies for the second file, which reads limit alone.
DraftDiamondBodies ==
  {b \in DiamondBodies :
     /\ b.shape \in {Undefined, Str("Oval"), Str("Brilliant Round")}
     /\ b.carat \in {NoCarat, Carat(Num(45), Num(55))}}

\* A supplier item with the given price.
Item(price) ==
  [id |-> Str("d1"), price |-> price, image |-> Undefined, carats |-> Num(1),
   shape |-> Str("ROUND"), color |-> Str("D"), clarity |-> Undefined,
   cut |-> Str(""), certNumber |-> Str("GIA1")]

\* Prices, in eighths: numbers, and what is not a number.
NumericPrices == {Num(n) : n \in {-9, -1, 0, 1, 3, 4, 8, 9, 100, 8001}}
PriceStrings == {Str(""), Str(" "), Str("0"), Str("12.5"), Str("0.125"),
                 Str("1e2"), Str("abc")}
OtherPrices == {Undefined, JsNull, Bool(TRUE), Bool(FALSE), Obj("{}")}
Prices == NumericPrices \cup PriceStrings \cup OtherPrices

OkItems(items) == [ok |-> TRUE, errors |-> FALSE, token |-> 0, items |-> items]
FailedQueries ==
  {[ok |-> FALSE, errors |-> FALSE, token |-> 0, items |-> <<>>],
   [ok |-> TRUE, errors |-> TRUE, token |-> 0, items |-> <<>>]}

QueryResponses ==
  {OkItems(<<>>)} \cup {OkItems(<<Item(p)>>) : p \in Prices}
    \cup {OkItems(<<Item(Num(9)), Item(p)>>) : p \in {Undefined, Str("12.5")}}
    \cup FailedQueries

PlainQueryResponses ==
  {OkItems(<<Item(Num(9))>>), OkItems(<<Item(Undefined)>>)} \cup FailedQueries

NoDiamond ==
  [present |-> FALSE, id |-> Undefined, carats |-> Undefined, shape |-> Undefined,
   certNumber |-> Undefined]
Diamonds ==
  {[present |-> TRUE, id |-> Str("d1"), carats |-> Num(1), shape |-> Str("ROUND"),
    certNumber |-> Str("GIA1")],
   [present |-> TRUE, id |-> Str("d2"), carats |-> JsNull, shape |-> JsNull,
    certNumber |-> JsNull]}

CheckoutBodies ==
  [ringVariantId : {Undefined, JsNull, Str(""), Str("111")},
   quantity : {Undefined, Num(0), Num(2)},
   diamond : {NoDiamond} \cup Diamonds,
   diamondPriceCents : {Undefined, Num(-5), Num(0), Num(150050)}]

PlainCheckoutBodies ==
  {b \in CheckoutBodies :
     /\ b.ringVariantId \in {Undefined, Str("111")}
     /\ b.quantity = Num(2)
     /\ b.diamondPriceCents = Num(150050)
     /\ b.diamond.carats # JsNull}

DraftBodies == [baseVariantId : {Undefined, JsNull, Str(""), Str("222")}]

\* What the store may answer: an error status, a response without the field
\* asked for, or the identifier of what it created.
StoreResponses ==
  {[ok |-> FALSE, id |-> 0], [ok |-> TRUE, id |-> 0], [ok |-> TRUE, id |-> 7]}

(***************************************************************************)
(* The token cache under concurrent searches, as time passes: the first    *)
(* file's getNivodaToken and callNivoda up to the query it sends, and the  *)
(* handler's catch.  The answers to the queries, which do not touch the    *)
(* cache, are left to the specifications below.                            *)
(***************************************************************************)
InitToken == InitWith(SupplierEnvs, {1}, Reqs)

NextToken ==
  \/ \E r \in Reqs, body \in PlainDiamondBodies : ReceiveDiamonds(r, body)
  \/ \E r \in Reqs, outcome \in AuthOutcomes : SupplierAuthenticate(r, outcome)
  \/ \E r \in Reqs : AuthResponse(r)
  \/ \E r \in Reqs : CallNivodaResumes(r)
  \/ \E r \in Reqs : DiamondsResumes(r)
  \/ \E t \in Instants : Tick(t)

SpecToken == InitToken /\ [][NextToken]_vars

(***************************************************************************)
(* The token cache over a refresh that fails: a call that stores a token,  *)
(* a call that fails and the call after them, in any order and overlap.    *)
(* One search more than above.                                             *)
(***************************************************************************)
RefreshReqs == 1..(NumReqs + 1)

InitRefresh == InitWith(SupplierEnvs, {1}, RefreshReqs)

NextRefresh ==
  \/ \E r \in RefreshReqs, body \in PlainDiamondBodies : ReceiveDiamonds(r, body)
  \/ \E r \in RefreshReqs, outcome \in AuthOutcomes : SupplierAuthenticate(r, outcome)
  \/ \E r \in RefreshReqs : AuthResponse(r)
  \/ \E r \in RefreshReqs : CallNivodaResumes(r)
  \/ \E r \in RefreshReqs : DiamondsResumes(r)
  \/ \E t \in Instants : Tick(t)

SpecRefresh == InitRefresh /\ [][NextRefresh]_vars


(***************************************************************************)
(* One search, over every shape label and every kind of price.             *)
(***************************************************************************)
InitDiamonds == InitWith(SupplierEnvs, Files, Reqs)

NextDiamonds ==
  \/ \E body \in DiamondBodies : ReceiveDiamonds(1, body)
  \/ \E body \in DraftDiamondBodies : ReceiveDiamondsDraft(1, body)
  \/ \E outcome \in AuthOutcomes : SupplierAuthenticate(1, outcome)
  \/ AuthResponse(1)
  \/ CallNivodaResumes(1)
  \/ \E resp \in QueryResponses : QueryResponse(1, resp)
  \/ DiamondsResumes(1)

SpecDiamonds == InitDiamonds /\ [][NextDiamonds]_vars

(***************************************************************************)
(* One checkout, over every request body and every setting of the store.   *)
(***************************************************************************)
InitCheckout == InitWith(StoreEnvs, Files, Reqs)

NextCheckout ==
  \/ \E body \in CheckoutBodies : ReceiveCheckout(1, body)
  \/ \E resp \in StoreResponses : VariantResponse(1, resp)
  \/ CreateDiamondVariantResumes(1)
  \/ \E resp \in StoreResponses : CheckoutResponse(1, resp)
  \/ CreateCheckoutResumes(1)
  \/ CheckoutResumes(1)
  \/ \E body \in DraftBodies : ReceiveCheckoutDraft(1, body)

SpecCheckout == InitCheckout /\ [][NextCheckout]_vars

(***************************************************************************)
(* The server: concurrent requests on both routes.                         *)
(***************************************************************************)
Init == InitWith(SupplierEnvs \cup StoreEnvs, Files, Reqs)

Next ==
  \/ \E r \in Reqs, body \in PlainDiamondBodies : ReceiveDiamonds(r, body)
  \/ \E r \in Reqs, body \in PlainDiamondBodies : ReceiveDiamondsDraft(r, body)
  \/ \E r \in Reqs, outcome \in AuthOutcomes : SupplierAuthenticate(r, outcome)
  \/ \E r \in Reqs : AuthResponse(r)
  \/ \E r \in Reqs : CallNivodaResumes(r)
  \/ \E r \in Reqs, resp \in PlainQueryResponses : QueryResponse(r, resp)
  \/ \E r \in Reqs : DiamondsResumes(r)
  \/ \E r \in Reqs, body \in PlainCheckoutBodies : ReceiveCheckout(r, body)
  \/ \E r \in Reqs, resp \in StoreResponses : VariantResponse(r, resp)
  \/ \E r \in Reqs : CreateDiamondVariantResumes(r)
  \/ \E r \in Reqs, resp \in StoreResponses : CheckoutResponse(r, resp)
  \/ \E r \in Reqs : CreateCheckoutResumes(r)
  \/ \E r \in Reqs : CheckoutResumes(r)
  \/ \E r \in Reqs, body \in DraftBodies : ReceiveCheckoutDraft(r, body)

Spec == Init /\ [][Next]_vars


(***************************************************************************)
(* Properties of the token cache.                                          *)
(***************************************************************************)
\* The calls of one kind among the outbound calls of a request.
Count(log, api) == Cardinality({i \in 1..Len(log) : log[i].api = api})

Last(q) == q[Len(q)]

\* Request r got its token from the cache, without authenticating.
Reused(r) ==
  entry[r].entered /\ tok[r] # 0 /\ Count(calls[r], "authenticate") = 0

\* The time at which a refresh stored token tk.
StoredAt(tk) ==
  LET i == CHOOSE i \in 1..Len(refreshLog) : refreshLog[i].token = tk
  IN  refreshLog[i].at

\* C1: a call that enters getNivodaToken within the time-to-live of the cached
\* token issues no authenticate request; a call that enters once the cached
\* token's time-to-live has passed issues exactly one.
TokenReuse ==
  \A r \in Reqs :
    entry[r].entered /\ entry[r].token # 0 =>
      IF entry[r].at < entry[r].expiry
      THEN Count(calls[r], "authenticate") = 0
      ELSE Count(calls[r], "authenticate") = 1

\* A call that entered after the cached token had expired refreshed it once
\* and sent its query with the new token.
TokenReuseWitness ==
  \E r \in Reqs :
    /\ entry[r].entered /\ entry[r].token # 0
    /\ entry[r].at >= entry[r].expiry
    /\ Count(calls[r], "authenticate") = 1
    /\ tok[r] # 0 /\ tok[r] # entry[r].token
    /\ pc[r] = "query"

\* The cache is written by the refresh alone, and its expiry is that of the
\* token stored with it.
CacheWrittenByRefresh ==
  IF refreshLog = <<>>
  THEN cachedToken = 0 /\ cachedTokenExpiry = 0
  ELSE \E i \in 1..Len(refreshLog) :
         /\ cachedToken = refreshLog[i].token
         /\ cachedTokenExpiry = refreshLog[i].at + TOKEN_TTL_MS

\* C8, as claimed: a cached token is reused only within the time-to-live
\* counted from the time the supplier issued it; the cache is written by the
\* refresh alone and its expiry belongs to its token.
TokenValidSinceIssued ==
  /\ \A r \in Reqs :
       Reused(r) => entry[r].at < supplierIssued[tok[r]].at + TOKEN_TTL_MS
  /\ CacheWrittenByRefresh

\* C8, amended: a cached token is reused only within the time-to-live counted
\* from the time the refresh stored it (Date.now() once the response to
\* authenticate has arrived); the cache is written by the refresh alone and
\* its expiry belongs to its token.
TokenValidSinceStored ==
  /\ \A r \in Reqs :
       Reused(r) =>
         /\ \E i \in 1..Len(refreshLog) : refreshLog[i].token = tok[r]
         /\ entry[r].at < StoredAt(tok[r]) + TOKEN_TTL_MS
  /\ CacheWrittenByRefresh

\* A token was reused when the time-to-live since the supplier issued it had
\* passed.
TokenValidWitness ==
  \E r \in Reqs :
    /\ Reused(r)
    /\ entry[r].at >= supplierIssued[tok[r]].at + TOKEN_TTL_MS
    /\ entry[r].at < StoredAt(tok[r]) + TOKEN_TTL_MS

\* C9: of the callers that refresh at the same time, each one whose
\* authenticate call succeeds holds the token the supplier issued to it; and
\* once no refresh is pending the cache holds the token and the expiry that
\* the refresh that completed last wrote, never a mix, never an empty value.
ConcurrentRefresh ==
  /\ \A r \in Reqs :
       Count(calls[r], "authenticate") = 1 /\ calls[r][1].result = "ok" =>
         tok[r] # 0 /\ supplierIssued[tok[r]].to = r
  /\ (\A r \in Reqs : pc[r] \notin {"auth", "authReply"}) /\ refreshLog # <<>> =>
       /\ cachedToken # 0
       /\ cachedToken = Last(refreshLog).token
       /\ cachedTokenExpiry = Last(refreshLog).at + TOKEN_TTL_MS

\* Two callers refreshed at the same time, and the one that entered first
\* completed last, with the older token.
ConcurrentRefreshWitness ==
  /\ Len(refreshLog) = 2
  /\ entry[2].entered /\ entry[2].writes = 0
  /\ refreshLog[1].by = 2 /\ refreshLog[2].by = 1
  /\ tok[1] # tok[2]
  /\ tok[1] < tok[2]
  /\ cachedToken = tok[1]
  /\ \A r \in {1, 2} : pc[r] = "query"

\* A step in which the getNivodaToken call of r ends with a throw.
GetTokenFails(r) ==
  /\ pc[r] \in {"idle", "authReply"}
  /\ pc'[r] = "tokenError"

\* A step in which r enters getNivodaToken.
Enters(r) == ~entry[r].entered /\ entry'[r].entered

\* A failed getNivodaToken call leaves the cache as it was, and the cache
\* returns no token whose expiry has passed.
FailureLeavesCache(r) ==
  /\ GetTokenFails(r) =>
       cachedToken' = cachedToken /\ cachedTokenExpiry' = cachedTokenExpiry
  /\ Enters(r) /\ tok'[r] # 0 =>
       tok'[r] = cachedToken /\ now < cachedTokenExpiry

\* The call of r that enters getNivodaToken in this step attempts to
\* authenticate: it is returned no cached token, and goes on to the test of
\* the credentials and the authenticate request.
Attempts(r) == tok'[r] = 0 /\ pc'[r] \in {"auth", "tokenError"}

\* C10, as claimed: a failed getNivodaToken call leaves the cache as it was,
\* no expired token is returned, and the next call after a failed one
\* attempts to authenticate again.
FailedRefreshThenAuthenticate ==
  [][\A r \in DOMAIN pc :
       /\ FailureLeavesCache(r)
       /\ Enters(r) /\ lastFailure # "none" => Attempts(r)]_vars

\* C10, amended: a failed getNivodaToken call leaves the cache as it was, no
\* expired token is returned, and the next call after a failed one attempts
\* to authenticate again (it sends one authenticate request when the
\* credentials are set, and none when they are not) when no refresh stored a
\* token since the failed call began; when one did, the next call that does
\* not authenticate is returned the token that the latest refresh stored,
\* within its time-to-live.
FailedRefreshThenAuthenticateUnlessStored ==
  [][\A r \in DOMAIN pc :
       /\ FailureLeavesCache(r)
       /\ Enters(r) /\ lastFailure = "clean" =>
            /\ Attempts(r)
            /\ Count(calls'[r], "authenticate") = IF CredentialsMissing THEN 0 ELSE 1
       /\ Enters(r) /\ lastFailure = "overwritten" /\ ~Attempts(r) =>
            /\ refreshLog # <<>>
            /\ tok'[r] = Last(refreshLog).token
            /\ now < Last(refreshLog).at + TOKEN_TTL_MS]_vars

\* A token was cached and expired; the refresh of the next call failed and
\* left the token and its expiry in the cache; the call after it sent an
\* authenticate request of its own.
FailedRefreshWitness ==
  \E a, b, c \in DOMAIN pc :
    /\ a # b /\ b # c /\ a # c
    /\ refreshLog # <<>> /\ refreshLog[1].by = a
    /\ entry[b].entered /\ entry[b].token = refreshLog[1].token
    /\ entry[b].at >= entry[b].expiry
    /\ calls[b] = <<[api |-> "authenticate", result |-> "failed"]>>
    /\ entry[c].entered /\ entry[c].after = "clean"
    /\ entry[c].token = entry[b].token /\ entry[c].expiry = entry[b].expiry
    /\ Count(calls[c], "authenticate") = 1
    /\ cachedToken = entry[b].token /\ cachedTokenExpiry = entry[b].expiry


(***************************************************************************)
(* Properties of POST /checkout.                                           *)
(***************************************************************************)
IsCheckout(r) == file = 1 /\ request[r].route = "/checkout"

StoreConfigured ==
  env.SHOPIFY_STORE_DOMAIN # "" /\ env.SHOPIFY_ADMIN_ACCESS_TOKEN # ""

\* The body of r carries the variant reference, a diamond and a positive
\* price.
DiamondCheckout(r) ==
  /\ IsCheckout(r)
  /\ request[r].body.ringVariantId \notin {Undefined, JsNull, Str("")}
  /\ request[r].body.diamond.present
  /\ request[r].body.diamondPriceCents.t = "number"
  /\ request[r].body.diamondPriceCents.n > 0

\* r is answered and none of its calls failed.
AnsweredWithoutFailure(r) ==
  pc[r] = "done" /\ \A i \in 1..Len(calls[r]) : calls[r][i].result = "ok"

\* One create-variant call, then one create-checkout call whose line items
\* are the ring and then the new variant.
VariantThenCheckout(r) ==
  /\ Len(calls[r]) = 2
  /\ calls[r][1].api = "createVariant" /\ calls[r][2].api = "createCheckout"
  /\ Len(frame[r].lineItems) = 2
  /\ frame[r].lineItems[1].properties.ring
  /\ frame[r].lineItems[1].variant_id = IdToNumber(request[r].body.ringVariantId)
  /\ ~frame[r].lineItems[2].properties.ring
  /\ frame[r].lineItems[2].variant_id.n \in {x.id : x \in StoreResponses} \ {0}

\* C2, as claimed: a checkout with a diamond and a positive price, the store
\* configured and every store call succeeding, issued one create-variant
\* call and then one create-checkout call of two line items.
DiamondCheckoutCreatesVariant ==
  \A r \in Reqs :
    DiamondCheckout(r) /\ StoreConfigured /\ AnsweredWithoutFailure(r) =>
      VariantThenCheckout(r)

\* C2, amended: the same when DIAMOND_PRODUCT_ID is set as well.
DiamondCheckoutCreatesVariantIfProduct ==
  \A r \in Reqs :
    DiamondCheckout(r) /\ StoreConfigured /\ env.DIAMOND_PRODUCT_ID # ""
      /\ AnsweredWithoutFailure(r) =>
      VariantThenCheckout(r)

\* A checkout with a diamond was answered with the URL of a checkout of two
\* line items.
DiamondCheckoutWitness ==
  \E r \in Reqs :
    /\ DiamondCheckout(r) /\ AnsweredWithoutFailure(r)
    /\ res[r].status = 200 /\ res[r].checkoutUrl # 0
    /\ Len(frame[r].lineItems) = 2
    /\ Len(calls[r]) = 2

\* C3: a checkout whose body lacks the variant reference (absent, null or
\* empty) is answered 400 and issues no outbound call, on either version of
\* the route.
MissingVariantRejected ==
  \A r \in Reqs :
    \/ IsCheckout(r) /\ request[r].body.ringVariantId \in {Undefined, JsNull, Str("")}
    \/ file = 2 /\ request[r].route = "/checkout"
         /\ request[r].body.baseVariantId \in {Undefined, JsNull, Str("")}
    => /\ pc[r] = "done"
       /\ res[r].status = 400
       /\ res[r].cartUrl = <<>> /\ res[r].url = <<>> /\ res[r].checkoutUrl = 0
       /\ calls[r] = <<>>

\* A checkout that would have created a variant, but for the missing
\* reference, was answered 400.
MissingVariantWitness ==
  \E r \in Reqs :
    /\ IsCheckout(r) /\ request[r].body.ringVariantId = Undefined
    /\ request[r].body.diamond.present
    /\ request[r].body.diamondPriceCents = Num(150050)
    /\ StoreConfigured /\ env.DIAMOND_PRODUCT_ID # ""
    /\ res[r].status = 400 /\ res[r].error = "Missing ringVariantId"

\* C4: with the store's domain or access token unset, a checkout that carries
\* the variant reference is answered the cart URL /cart/{variantId}:{quantity}
\* and calls no store API, whatever else its body carries.
FallbackCartUrl ==
  \A r \in Reqs :
    IsCheckout(r) /\ ~StoreConfigured
      /\ request[r].body.ringVariantId \notin {Undefined, JsNull, Str("")} =>
      /\ pc[r] = "done"
      /\ res[r].status = 200
      /\ res[r].cartUrl =
           <<Str("/cart/"), request[r].body.ringVariantId, Str(":"),
             IF request[r].body.quantity = Undefined
             THEN Num(1) ELSE request[r].body.quantity>>
      /\ res[r].checkoutUrl = 0
      /\ calls[r] = <<>>

\* A checkout with a diamond and a positive price was answered the cart URL,
\* only the access token being unset.
FallbackWitness ==
  \E r \in Reqs :
    /\ DiamondCheckout(r)
    /\ env.SHOPIFY_STORE_DOMAIN # "" /\ env.SHOPIFY_ADMIN_ACCESS_TOKEN = ""
    /\ request[r].body.quantity = Num(2)
    /\ res[r].status = 200 /\ Len(res[r].cartUrl) = 4

(***************************************************************************)
(* No retries.                                                             *)
(***************************************************************************)
Apis == {"authenticate", "query", "createVariant", "createCheckout"}

\* The fixed message of a route's 500.
GenericError(route) ==
  IF route = "/diamonds" THEN "Could not load diamonds" ELSE "Checkout error"

\* C5: a request issues each outbound call at most once; a failed call is
\* the last call of its request, which waits for no call any more and is
\* answered nothing but 500 with the fixed message of its route.
NoRetries ==
  \A r \in Reqs :
    /\ \A api \in Apis : Count(calls[r], api) <= 1
    /\ \A i \in 1..Len(calls[r]) :
         calls[r][i].result = "failed" =>
           /\ i = Len(calls[r])
           /\ pc[r] \notin {"auth", "authReply", "query", "variant", "checkout"}
           /\ IF pc[r] = "done"
              THEN res[r] = ErrorRes(500, GenericError(request[r].route))
              ELSE res[r] = NoRes

\* A checkout failed after its variant was created, and a search failed
\* after its authentication succeeded.
NoRetriesWitness ==
  \E r, q \in Reqs :
    /\ Len(calls[r]) = 2
    /\ calls[r][1] = [api |-> "createVariant", result |-> "ok"]
    /\ calls[r][2] = [api |-> "createCheckout", result |-> "failed"]
    /\ res[r].status = 500
    /\ Len(calls[q]) = 2
    /\ calls[q][1] = [api |-> "authenticate", result |-> "ok"]
    /\ calls[q][2] = [api |-> "query", result |-> "failed"]
    /\ res[q].status = 500

(***************************************************************************)
(* Properties of POST /diamonds.                                           *)
(***************************************************************************)
\* C6: the query sent to the supplier carries shapes = [code] for a label of
\* SHAPE_MAP, and no shapes filter for every other label.
ShapeFilter ==
  \A r \in Reqs :
    file = 1 /\ request[r].route = "/diamonds" /\ Count(calls[r], "query") = 1 =>
      LET label == request[r].body.shape
          query == frame[r].variables[1].query
      IN  IF label.t = "string" /\ label.s \in DOMAIN SHAPE_MAP
          THEN query.hasShapes /\ query.shapes = <<Str(SHAPE_MAP[label.s])>>
          ELSE ~query.hasShapes /\ query.shapes = <<>>

\* c is the integer nearest to 100 times a price of n eighths, a half
\* rounded up.
Nearest(c, n) ==
  c.t = "number" /\ c.s = "" /\ 2 * c.n <= 25 * n + 1 /\ 25 * n + 1 < 2 * c.n + 2

\* r is a search that was answered its items.
Searched(r) == request[r].route = "/diamonds" /\ res[r].status = 200

\* C7, as claimed: a numeric price is normalized to round(price * 100); any
\* other price (absent, null, a string, any other value) to null.
PriceNormalized ==
  \A r \in Reqs :
    Searched(r) =>
      \A i \in 1..Len(frame[r].rawItems) :
        LET price == frame[r].rawItems[i].price
            cents == res[r].items[i].priceCents
        IN  IF price.t = "number"
            THEN Nearest(cents, price.n)
            ELSE cents = JsNull

=============================================================================
